---- MODULE Spec2Model ----
(***************************************************************************)
(* AI collection routing of Linkwarden links.                              *)
(*                                                                         *)
(*   apps/worker/lib/autoAssignCollection.ts   getAIModel, buildPrompt,    *)
(*                                             autoAssignCollection        *)
(*   apps/web/pages/api/v1/collections/ai-assign.ts   handler (batch)      *)
(*                                                                         *)
(* The Link table is the shared state.  A request slot runs either the     *)
(* batch handler or a direct call of the exported autoAssignCollection;    *)
(* every `await` of the code is one atomic step of the slot.               *)
(***************************************************************************)
EXTENDS Integers, Sequences, FiniteSets, TLC

\* ------------------------------------------------------------------ bounds
NumUsers == 3
NumCollections == 3
NumLinks == 2

\* ------------------------------------------------------- program constants
CandidateTake == 25
BatchTake == 50

Users == 1..NumUsers
Collections == 1..NumCollections
LinkIds == 1..NumLinks

\* request slots: the variables hold the locals of two requests; the main
\* specification runs requests one after the other, in slot 1
Procs == {1, 2}
Sequential == {1}

\* a link id that has no row in the Link table
MissingLinkId == NumLinks + 1

\* `undefined`: the value of an unassigned local and of a bare `return undefined`
Undefined == -1

\* prisma.link.findUnique resolving to null
NullLink == [id |-> 0, collectionId |-> 0, aiCollectionAssigned |-> FALSE]

\* Collection.ownerId (read-only for this code): the last collection belongs
\* to user 2, all others to user 1; users 3.. own no collection
ownerId(c) == IF c < NumCollections THEN 1 ELSE 2

\* Collection.updatedAt (read-only for this code), distinct per collection
updatedAt(c) == c

\* ---------------------------------------------------------- configuration
EnvVars == {"OPENAI_API_KEY", "OPENAI_MODEL", "AZURE_API_KEY",
            "AZURE_RESOURCE_NAME", "AZURE_MODEL", "ANTHROPIC_API_KEY",
            "ANTHROPIC_MODEL", "NEXT_PUBLIC_OLLAMA_ENDPOINT_URL",
            "OLLAMA_MODEL", "OPENROUTER_API_KEY", "OPENROUTER_MODEL",
            "PERPLEXITY_API_KEY", "PERPLEXITY_MODEL"}

\* configuration snapshots the main specification starts from; a snapshot is
\* the set of variables of process.env holding a non-empty string
EnvSnapshots == { {},
                  {"OPENAI_API_KEY"},
                  {"OPENAI_API_KEY", "OPENAI_MODEL"},
                  {"PERPLEXITY_API_KEY"} }

\* getAIModel probing Anthropic before the OpenAI-compatible slot
getAIModelAnthropicFirst(e) ==
  IF "ANTHROPIC_API_KEY" \in e /\ "ANTHROPIC_MODEL" \in e THEN "anthropic"
  ELSE IF "OPENAI_API_KEY" \in e /\ "OPENAI_MODEL" \in e
       THEN "openai-compatible"
  ELSE IF "AZURE_API_KEY" \in e /\ "AZURE_RESOURCE_NAME" \in e
          /\ "AZURE_MODEL" \in e THEN "azure"
  ELSE IF "NEXT_PUBLIC_OLLAMA_ENDPOINT_URL" \in e /\ "OLLAMA_MODEL" \in e
       THEN "ollama"
  ELSE IF "OPENROUTER_API_KEY" \in e /\ "OPENROUTER_MODEL" \in e
       THEN "openrouter"
  ELSE IF "PERPLEXITY_API_KEY" \in e THEN "perplexity"
  ELSE "throw"

\* getAIModel taking the OpenRouter slot on its key alone
getAIModelKeyOnly(e) ==
  IF "OPENAI_API_KEY" \in e /\ "OPENAI_MODEL" \in e THEN "openai-compatible"
  ELSE IF "AZURE_API_KEY" \in e /\ "AZURE_RESOURCE_NAME" \in e
          /\ "AZURE_MODEL" \in e THEN "azure"
  ELSE IF "ANTHROPIC_API_KEY" \in e /\ "ANTHROPIC_MODEL" \in e THEN "anthropic"
  ELSE IF "NEXT_PUBLIC_OLLAMA_ENDPOINT_URL" \in e /\ "OLLAMA_MODEL" \in e
       THEN "ollama"
  ELSE IF "OPENROUTER_API_KEY" \in e THEN "openrouter"
  ELSE IF "PERPLEXITY_API_KEY" \in e THEN "perplexity"
  ELSE "throw"

\* getAIModel: the provider whose model is returned, "throw" for the Error
getAIModel(e) ==
  IF "OPENAI_API_KEY" \in e /\ "OPENAI_MODEL" \in e THEN "openai-compatible"
  ELSE IF "AZURE_API_KEY" \in e /\ "AZURE_RESOURCE_NAME" \in e
          /\ "AZURE_MODEL" \in e THEN "azure"
  ELSE IF "ANTHROPIC_API_KEY" \in e /\ "ANTHROPIC_MODEL" \in e THEN "anthropic"
  ELSE IF "NEXT_PUBLIC_OLLAMA_ENDPOINT_URL" \in e /\ "OLLAMA_MODEL" \in e
       THEN "ollama"
  ELSE IF "OPENROUTER_API_KEY" \in e /\ "OPENROUTER_MODEL" \in e
       THEN "openrouter"
  ELSE IF "PERPLEXITY_API_KEY" \in e THEN "perplexity"
  ELSE "throw"

\* the handler's own provider test
anyProviderKey(e) ==
  \/ "NEXT_PUBLIC_OLLAMA_ENDPOINT_URL" \in e
  \/ "OPENAI_API_KEY" \in e
  \/ "AZURE_API_KEY" \in e
  \/ "ANTHROPIC_API_KEY" \in e
  \/ "OPENROUTER_API_KEY" \in e
  \/ "PERPLEXITY_API_KEY" \in e

\* ------------------------------------------------------------ buildPrompt
\* .slice(0, 2000) of condensedContent
ContentCap == 2000

\* array.filter(Boolean) on an array of strings: the empty ones are dropped
filterBoolean(s) == SelectSeq(s, LAMBDA x : Len(x) > 0)

\* array.join(sep)
RECURSIVE join(_, _)
join(parts, sep) ==
  IF Len(parts) = 0 THEN <<>>
  ELSE IF Len(parts) = 1 THEN parts[1]
  ELSE parts[1] \o sep \o join(Tail(parts), sep)

\* slice returning the whole string
sliceWhole(s, start, end) == s

\* string.slice(start, end) for 0 <= start <= end
slice(s, start, end) ==
  SubSeq(s, start + 1, IF end < Len(s) THEN end ELSE Len(s))

\* const condensedContent = [...].filter(Boolean).join("\n").slice(0, 2000)
condensedContent(link, context) ==
  slice(join(filterBoolean(<<link.name, link.description,
                             context.metaDescription, context.pageContent>>),
             <<"\n">>),
        0, ContentCap)

\* buildPrompt: the parts of the template literal taken from the arguments
\* that the model keeps (the current collection id, the candidate list, the
\* summary)
buildPrompt(link, collections, context) ==
  [built |-> TRUE, collectionId |-> link.collectionId,
   collectionList |-> collections,
   summary |-> condensedContent(link, context)]

\* ------------------------------------------------------------ model reply
\* generateObject either throws (request failure, or a reply that fails
\* z.object({collectionId: z.number().int()})) or resolves to an object whose
\* collectionId is some integer: an existing collection id of any user, or an
\* id of no collection (0 and NumCollections + 1)
ReplyIds == 0..(NumCollections + 1)

ModelReplies ==
  {[kind |-> k, collectionId |-> Undefined] : k \in {"requestError", "schemaMismatch"}}
    \cup {[kind |-> "object", collectionId |-> n] : n \in ReplyIds}

VARIABLES
  links,   \* Link table: id -> [collectionId, aiCollectionAssigned]
  env,     \* process.env
  pc,      \* control point of each request slot
  frame,   \* locals of the running autoAssignCollection call of each slot
  batch,   \* locals of the running handler of each slot
  links0,  \* history: the Link table of the initial state
  classified, \* history: links for which generateObject resolved to an object
  committed, \* history: links for which a prisma.link.update of a cycle ran
  last,    \* history: the call that returned last, where it is recorded
  resolved, \* what the latest call of getAIModel on its own gave, if any
  texts,   \* the text fields handed to buildPrompt on its own
  prompt   \* what the latest call of buildPrompt on its own returned, if any

\* no call of getAIModel on its own has been made
NoModel == "none"

\* a string is the sequence of its characters; undefined and "" are both
\* falsy and both joined as "", so an absent field is the empty string
NoTexts == [name |-> <<>>, description |-> <<>>, metaDescription |-> <<>>,
            pageContent |-> <<>>]

\* no call of buildPrompt on its own has been made
NoPrompt == [built |-> FALSE, collectionId |-> 0, collectionList |-> <<>>,
             summary |-> <<>>]

vars == <<links, env, pc, frame, batch, links0, classified, committed, last,
          resolved, texts, prompt>>

\* ------------------------------------------------------------------ frames
NoUser == [id |-> 0, aiCollectionsEnabled |-> FALSE]

\* exit (history): the source line of the return statement the call left
\* through, 0 while it runs; before (history): what findUnique gives for
\* linkId at the moment of the call; modelCalled (history): generateObject
\* was handed a model and a prompt
IdleFrame == [user |-> NoUser, linkId |-> 0, link |-> NullLink,
              collections |-> <<>>, object |-> Undefined, ret |-> Undefined,
              exit |-> 0, before |-> NullLink, modelCalled |-> FALSE]

\* the value of last before any call has returned, and its value in the
\* specifications that do not record it
NoLast == [user |-> NoUser, linkId |-> 0, exit |-> 0]
LastOff == [user |-> NoUser, linkId |-> 0, exit |-> -1]

\* last after the caller has taken the result of the call with frame f
recordLast(f) ==
  IF last = LastOff THEN last
  ELSE [user |-> f.user, linkId |-> f.linkId, exit |-> f.exit]

\* links: the rows of `links` the for loop has not yet taken; selected
\* (history): all rows of `links`; failed (history): the calls of this batch
\* that returned through the catch block
IdleBatch == [active |-> FALSE, user |-> NoUser, links |-> <<>>,
              processed |-> 0, status |-> 0, selected |-> <<>>, failed |-> 0]

\* ------------------------------------------------------------ Link table
LinkRows == [collectionId : Collections, aiCollectionAssigned : BOOLEAN]

\* prisma.link.findUnique({where: {id}})
findUnique(tbl, id) ==
  IF id \in DOMAIN tbl
  THEN [id |-> id, collectionId |-> tbl[id].collectionId,
        aiCollectionAssigned |-> tbl[id].aiCollectionAssigned]
  ELSE NullLink

\* the sequences that list every element of the set S once
RECURSIVE Orderings(_)
Orderings(S) ==
  IF S = {} THEN {<<>>}
  ELSE UNION {{<<x>> \o t : t \in Orderings(S \ {x})} : x \in S}

\* orderBy: {updatedAt: "desc"}
RECURSIVE byUpdatedAtDesc(_)
byUpdatedAtDesc(S) ==
  IF S = {} THEN <<>>
  ELSE LET top == CHOOSE x \in S : \A y \in S : updatedAt(y) <= updatedAt(x)
       IN <<top>> \o byUpdatedAtDesc(S \ {top})

Take(s, n) == SubSeq(s, 1, IF Len(s) < n THEN Len(s) ELSE n)

\* faulty variant: the where clause is lost, collections of every owner
\* are candidates
findManyCollectionsAnyOwner(uid) ==
  Take(byUpdatedAtDesc(Collections), CandidateTake)

\* prisma.collection.findMany({where: {ownerId}, orderBy: {updatedAt: "desc"},
\* take: 25}), projected to the ids
findManyCollections(uid) ==
  Take(byUpdatedAtDesc({c \in Collections : ownerId(c) = uid}), CandidateTake)

\* new Set(collections.map((c) => c.id))
allowedIds(collections) == {collections[i] : i \in DOMAIN collections}

\* faulty variant: the reply is taken without the membership test
chosenIdUnchecked(collections, object, link) == object

\* faulty variant: the reply is never taken
chosenIdKeep(collections, object, link) == link.collectionId

\* allowedIds.has(object.collectionId) ? object.collectionId : link.collectionId
chosenId(collections, object, link) ==
  IF object \in allowedIds(collections) THEN object ELSE link.collectionId

\* faulty variant: the preference is not looked at
disabledNever(user) == FALSE

\* !user.aiCollectionsEnabled
disabled(user) == ~user.aiCollectionsEnabled

\* faulty variant: an empty candidate list goes on to the model
noCollectionsNever(collections) == FALSE

\* collections.length === 0
noCollections(collections) == Len(collections) = 0

\* faulty variant: only the missing link is skipped
skipLinkMissingOnly(link) == link = NullLink

\* !link || link.aiCollectionAssigned
skipLink(link) == link = NullLink \/ link.aiCollectionAssigned

\* prisma.link.update({where: {id}, data}): the fields named in data are
\* written, the others keep the value the row has
update(tbl, id, data) ==
  [tbl EXCEPT ![id] = [f \in DOMAIN tbl[id] |->
                         IF f \in DOMAIN data THEN data[f] ELSE tbl[id][f]]]

\* faulty variant: the link is marked only when it moves
keepDataUnlatched == [aiCollectionAssigned |-> FALSE]

\* data of the update when chosenId === link.collectionId
keepData == [aiCollectionAssigned |-> TRUE]

\* faulty variant: the move does not mark the link
moveDataUnlatched(chosen) == [collectionId |-> chosen]

\* data of the update when the link moves
moveData(chosen) == [collectionId |-> chosen, aiCollectionAssigned |-> TRUE]

\* faulty variant: the query selects the latched links
eligibleLinksLatched(tbl, uid) ==
  {l \in DOMAIN tbl : ownerId(tbl[l].collectionId) = uid
                        /\ tbl[l].aiCollectionAssigned}

\* the where clause of the handler's prisma.link.findMany
eligibleLinks(tbl, uid) ==
  {l \in DOMAIN tbl : ownerId(tbl[l].collectionId) = uid
                      /\ ~tbl[l].aiCollectionAssigned}

\* --------------------------------------------------------------- initially
Init ==
  /\ links \in [LinkIds -> LinkRows]
  /\ env \in EnvSnapshots
  /\ links0 = links
  /\ classified = {}
  /\ committed = {}
  /\ last = LastOff
  /\ resolved = NoModel /\ texts = NoTexts /\ prompt = NoPrompt
  /\ pc = [p \in Procs |-> "idle"]
  /\ frame = [p \in Procs |-> IdleFrame]
  /\ batch = [p \in Procs |-> IdleBatch]

\* -------------------------------------------------- autoAssignCollection
\* entry of autoAssignCollection(user, linkId, context) up to its first await
Enter(p, u, id) ==
  LET f == [IdleFrame EXCEPT !.user = u, !.linkId = id,
                             !.before = findUnique(links, id)]
  IN IF disabled(u)
     THEN /\ pc' = [pc EXCEPT ![p] = "returned"]
          /\ frame' = [frame EXCEPT ![p] = [f EXCEPT !.exit = 118]]
     ELSE /\ pc' = [pc EXCEPT ![p] = "findLink"]
          /\ frame' = [frame EXCEPT ![p] = f]

\* a caller other than the handler calls the exported function
DirectCall(p) ==
  /\ pc[p] = "idle"
  /\ \E uid \in Users, en \in BOOLEAN, id \in LinkIds \cup {MissingLinkId} :
       Enter(p, [id |-> uid, aiCollectionsEnabled |-> en], id)
  /\ UNCHANGED <<links, env, batch, links0, classified, committed, last,
               resolved, texts, prompt>>

\* const link = await prisma.link.findUnique(...); if (!link || ...) return
FindLink(p) ==
  /\ pc[p] = "findLink"
  /\ LET link == findUnique(links, frame[p].linkId)
     IN IF skipLink(link)
        THEN /\ pc' = [pc EXCEPT ![p] = "returned"]
             /\ frame' = [frame EXCEPT ![p].link = link, ![p].exit = 125]
        ELSE /\ pc' = [pc EXCEPT ![p] = "findCollections"]
             /\ frame' = [frame EXCEPT ![p].link = link]
  /\ UNCHANGED <<links, env, batch, links0, classified, committed, last,
               resolved, texts, prompt>>

\* const collections = await prisma.collection.findMany(...); if empty return
FindCollections(p) ==
  /\ pc[p] = "findCollections"
  /\ LET collections == findManyCollections(frame[p].user.id)
     IN IF noCollections(collections)
        THEN /\ pc' = [pc EXCEPT ![p] = "returned"]
             /\ frame' = [frame EXCEPT ![p].collections = collections,
                                       ![p].exit = 134]
        ELSE /\ pc' = [pc EXCEPT ![p] = "generate"]
             /\ frame' = [frame EXCEPT ![p].collections = collections]
  /\ UNCHANGED <<links, env, batch, links0, classified, committed, last,
               resolved, texts, prompt>>

\* faulty variant: the catch block marks the link as handled
GenerateLatchOnError(p) ==
  /\ pc[p] = "generate"
  /\ IF getAIModel(env) = "throw"
     THEN /\ pc' = [pc EXCEPT ![p] = "returned"]
          /\ frame' = [frame EXCEPT ![p].exit = 148]
          /\ links' = [links EXCEPT ![frame[p].link.id].aiCollectionAssigned = TRUE]
          /\ UNCHANGED classified
     ELSE \E r \in ModelReplies :
            IF r.kind = "object"
            THEN /\ pc' = [pc EXCEPT ![p] = "update"]
                 /\ frame' = [frame EXCEPT ![p].object = r.collectionId,
                                           ![p].modelCalled = TRUE]
                 /\ classified' = classified \cup {frame[p].linkId}
                 /\ UNCHANGED links
            ELSE /\ pc' = [pc EXCEPT ![p] = "returned"]
                 /\ frame' = [frame EXCEPT ![p].modelCalled = TRUE,
                                           ![p].exit = 148]
                 /\ links' = [links EXCEPT ![frame[p].link.id].aiCollectionAssigned = TRUE]
                 /\ UNCHANGED classified
  /\ UNCHANGED <<env, batch, links0, committed, last,
               resolved, texts, prompt>>

\* faulty variant: no catch block, the error of a call made by the handler
\* ends the request
GenerateRethrow(p) ==
  /\ pc[p] = "generate"
  /\ \E r \in ModelReplies :
       IF getAIModel(env) # "throw" /\ r.kind = "object"
       THEN /\ pc' = [pc EXCEPT ![p] = "update"]
            /\ frame' = [frame EXCEPT ![p].object = r.collectionId,
                                      ![p].modelCalled = TRUE]
            /\ classified' = classified \cup {frame[p].linkId}
            /\ UNCHANGED batch
       ELSE /\ pc' = [pc EXCEPT ![p] = IF batch[p].active THEN "responded"
                                       ELSE "returned"]
            /\ frame' = [frame EXCEPT ![p].exit = 148]
            /\ batch' = [batch EXCEPT ![p].status = IF batch[p].active THEN 500
                                                    ELSE @]
            /\ UNCHANGED classified
  /\ UNCHANGED <<links, env, links0, committed, last,
               resolved, texts, prompt>>

\* try { ({object} = await generateObject({model: getAIModel(), ...})) }
\* catch (err) { console.log(...); return undefined }
Generate(p) ==
  /\ pc[p] = "generate"
  /\ IF getAIModel(env) = "throw"
     THEN /\ pc' = [pc EXCEPT ![p] = "returned"]
          /\ frame' = [frame EXCEPT ![p].exit = 148]
          /\ UNCHANGED classified
     ELSE \E r \in ModelReplies :
            IF r.kind = "object"
            THEN /\ pc' = [pc EXCEPT ![p] = "update"]
                 /\ frame' = [frame EXCEPT ![p].object = r.collectionId,
                                           ![p].modelCalled = TRUE]
                 /\ classified' = classified \cup {frame[p].linkId}
            ELSE /\ pc' = [pc EXCEPT ![p] = "returned"]
                 /\ frame' = [frame EXCEPT ![p].modelCalled = TRUE,
                                           ![p].exit = 148]
                 /\ UNCHANGED classified
  /\ UNCHANGED <<links, env, batch, links0, committed, last,
               resolved, texts, prompt>>

\* the two prisma.link.update calls and the returns after them
Update(p) ==
  /\ pc[p] = "update"
  /\ LET link == frame[p].link
         chosen == chosenId(frame[p].collections, frame[p].object, link)
     IN IF chosen = link.collectionId
        THEN /\ links' = update(links, link.id, keepData)
             /\ frame' = [frame EXCEPT ![p].ret = link.collectionId,
                                       ![p].exit = 162]
        ELSE /\ links' = update(links, link.id, moveData(chosen))
             /\ frame' = [frame EXCEPT ![p].ret = links'[link.id].collectionId,
                                       ![p].exit = 174]
  /\ pc' = [pc EXCEPT ![p] = "returned"]
  /\ committed' = committed \cup {frame[p].linkId}
  /\ UNCHANGED <<env, batch, links0, classified, last,
               resolved, texts, prompt>>

\* the direct caller takes the result
DirectDone(p) ==
  /\ pc[p] = "returned"
  /\ ~batch[p].active
  /\ pc' = [pc EXCEPT ![p] = "idle"]
  /\ frame' = [frame EXCEPT ![p] = IdleFrame]
  /\ last' = recordLast(frame[p])
  /\ UNCHANGED <<resolved, texts, prompt>>
  /\ UNCHANGED <<links, env, batch, links0, classified, committed>>

\* ------------------------------------------------------- handler (batch)
Methods == {"POST", "GET"}

\* verifyToken: a message (string) or a token carrying a user id
Tokens == {[ok |-> FALSE, id |-> 0]} \cup {[ok |-> TRUE, id |-> u] : u \in Users}

\* prisma.user.findUnique: null (NoUser) or the user's row; the User table is
\* written by the settings page only, so the flag read here is an input
UserRows(uid) ==
  {NoUser} \cup {[id |-> uid, aiCollectionsEnabled |-> en] : en \in BOOLEAN}

\* the response the handler sends before it selects any link, 0 if none
earlyStatus(method, token, user, e) ==
  IF method # "POST" THEN 405
  ELSE IF ~token.ok THEN 401
  ELSE IF user = NoUser THEN 404
  ELSE IF ~user.aiCollectionsEnabled THEN 400
  ELSE IF ~anyProviderKey(e) THEN 400
  ELSE 0

\* the handler from its entry to the await of prisma.link.findMany
Handler(p) ==
  /\ pc[p] = "idle"
  /\ \E method \in Methods, token \in Tokens :
       \E user \in UserRows(token.id) :
         LET st == earlyStatus(method, token, user, env)
         IN IF st # 0
            THEN /\ pc' = [pc EXCEPT ![p] = "responded"]
                 /\ batch' = [batch EXCEPT ![p] =
                                [IdleBatch EXCEPT !.active = TRUE, !.status = st]]
            ELSE /\ pc' = [pc EXCEPT ![p] = "findMany"]
                 /\ batch' = [batch EXCEPT ![p] =
                                [IdleBatch EXCEPT !.active = TRUE, !.user = user]]
  /\ UNCHANGED <<links, env, frame, links0, classified, committed, last,
               resolved, texts, prompt>>

\* const links = await prisma.link.findMany({where: ..., take: 50}); the
\* query has no orderBy, so the rows come in an order the database chooses
FindMany(p) ==
  /\ pc[p] = "findMany"
  /\ LET rows == eligibleLinks(links, batch[p].user.id)
         n == IF Cardinality(rows) < BatchTake THEN Cardinality(rows)
              ELSE BatchTake
     IN \E taken \in SUBSET rows :
          /\ Cardinality(taken) = n
          /\ \E order \in Orderings(taken) :
               batch' = [batch EXCEPT ![p].links = order, ![p].processed = 0,
                                      ![p].selected = order]
  /\ pc' = [pc EXCEPT ![p] = "loop"]
  /\ UNCHANGED <<links, env, frame, links0, classified, committed, last,
               resolved, texts, prompt>>

\* for (const link of links) { await autoAssignCollection(user, link.id, ...)
\* ... }  return res.status(200).json({response: {processed}})
Loop(p) ==
  /\ pc[p] = "loop"
  /\ IF batch[p].links # <<>>
     THEN /\ Enter(p, batch[p].user, Head(batch[p].links))
          /\ batch' = [batch EXCEPT ![p].links = Tail(@)]
     ELSE /\ pc' = [pc EXCEPT ![p] = "responded"]
          /\ batch' = [batch EXCEPT ![p].status = 200]
          /\ UNCHANGED frame
  /\ UNCHANGED <<links, env, links0, classified, committed, last,
               resolved, texts, prompt>>

\* processed++ after the awaited call
Processed(p) ==
  /\ pc[p] = "returned"
  /\ batch[p].active
  /\ pc' = [pc EXCEPT ![p] = "loop"]
  /\ batch' = [batch EXCEPT ![p].processed = @ + 1,
                            ![p].failed = IF frame[p].exit = 148 THEN @ + 1
                                          ELSE @]
  /\ frame' = [frame EXCEPT ![p] = IdleFrame]
  /\ last' = recordLast(frame[p])
  /\ UNCHANGED <<resolved, texts, prompt>>
  /\ UNCHANGED <<links, env, links0, classified, committed>>

\* the response has been sent; the slot takes the next request
Responded(p) ==
  /\ pc[p] = "responded"
  /\ pc' = [pc EXCEPT ![p] = "idle"]
  /\ batch' = [batch EXCEPT ![p] = IdleBatch]
  /\ UNCHANGED <<links, env, frame, links0, classified, committed, last,
               resolved, texts, prompt>>

\* ------------------------------------------------------------ specification
Next ==
  \E p \in Sequential :
    \/ DirectCall(p)
    \/ FindLink(p)
    \/ FindCollections(p)
    \/ Generate(p)
    \/ Update(p)
    \/ DirectDone(p)
    \/ Handler(p)
    \/ FindMany(p)
    \/ Loop(p)
    \/ Processed(p)
    \/ Responded(p)

Spec == Init /\ [][Next]_vars

\* a Link table of unlatched links, the last one in the collection of user 2
\* and the others in collection 1; the cycles reach the other tables from it
startLinks ==
  [l \in LinkIds |->
     [collectionId |-> IF l < NumLinks THEN 1 ELSE NumCollections,
      aiCollectionAssigned |-> FALSE]]

\* calls in succession: the requests run one after the other from startLinks,
\* and the call that returned last is recorded
InitTwice ==
  /\ links = startLinks
  /\ env \in EnvSnapshots
  /\ links0 = links
  /\ classified = {}
  /\ committed = {}
  /\ last = NoLast
  /\ resolved = NoModel /\ texts = NoTexts /\ prompt = NoPrompt
  /\ pc = [p \in Procs |-> "idle"]
  /\ frame = [p \in Procs |-> IdleFrame]
  /\ batch = [p \in Procs |-> IdleBatch]

SpecTwice == InitTwice /\ [][Next]_vars

\* overlapping requests: both slots run from startLinks, their steps
\* interleave at the awaits
InitConc ==
  /\ links = startLinks
  /\ env = {"OPENAI_API_KEY", "OPENAI_MODEL"}
  /\ links0 = links
  /\ classified = {}
  /\ committed = {}
  /\ last = LastOff
  /\ resolved = NoModel /\ texts = NoTexts /\ prompt = NoPrompt
  /\ pc = [p \in Procs |-> "idle"]
  /\ frame = [p \in Procs |-> IdleFrame]
  /\ batch = [p \in Procs |-> IdleBatch]

NextConc ==
  \E p \in Procs :
    \/ DirectCall(p)
    \/ FindLink(p)
    \/ FindCollections(p)
    \/ Generate(p)
    \/ Update(p)
    \/ DirectDone(p)
    \/ Handler(p)
    \/ FindMany(p)
    \/ Loop(p)
    \/ Processed(p)
    \/ Responded(p)

SpecConc == InitConc /\ [][NextConc]_vars

\* the resolver on its own: getAIModel() called under any configuration, any
\* number of times
InitConfig ==
  /\ links = startLinks
  /\ env \in SUBSET EnvVars
  /\ links0 = links
  /\ classified = {}
  /\ committed = {}
  /\ last = LastOff
  /\ resolved = NoModel /\ texts = NoTexts /\ prompt = NoPrompt
  /\ pc = [p \in Procs |-> "idle"]
  /\ frame = [p \in Procs |-> IdleFrame]
  /\ batch = [p \in Procs |-> IdleBatch]

\* one call of getAIModel()
Resolve ==
  /\ resolved' = getAIModel(env)
  /\ UNCHANGED <<links, env, pc, frame, batch, links0, classified, committed,
                 last, texts, prompt>>

NextConfig == Resolve

SpecConfig == InitConfig /\ [][NextConfig]_vars

\* the string of n characters c
Run(c, n) == [i \in 1..n |-> c]

\* the lengths of the text fields handed to buildPrompt: none, one character,
\* and one below, at and one above the cap of the summary
TextLens == {0, 1, ContentCap - 1, ContentCap, ContentCap + 1}

\* the values of a text field written in character c: a run of c of each
\* length, and a line break alone
TextsOf(c) == {Run(c, n) : n \in TextLens} \cup {<<"\n">>}

\* the prompt builder on its own: buildPrompt called for link 1 of startLinks
\* with the candidates of user 1 and any text fields
InitPrompt ==
  /\ links = startLinks
  /\ env = {"OPENAI_API_KEY", "OPENAI_MODEL"}
  /\ links0 = links
  /\ classified = {}
  /\ committed = {}
  /\ last = LastOff
  /\ resolved = NoModel
  /\ texts \in [name : TextsOf("n"), description : TextsOf("d"),
                metaDescription : TextsOf("m"), pageContent : TextsOf("p")]
  /\ prompt = NoPrompt
  /\ pc = [p \in Procs |-> "idle"]
  /\ frame = [p \in Procs |-> IdleFrame]
  /\ batch = [p \in Procs |-> IdleBatch]

\* one call of buildPrompt(link, collections, context)
Build ==
  /\ prompt' = buildPrompt([name |-> texts.name,
                            description |-> texts.description,
                            collectionId |-> links[1].collectionId],
                           findManyCollections(1),
                           [metaDescription |-> texts.metaDescription,
                            pageContent |-> texts.pageContent])
  /\ UNCHANGED <<links, env, pc, frame, batch, links0, classified, committed,
                 last, resolved, texts>>

NextPrompt == Build

SpecPrompt == InitPrompt /\ [][NextPrompt]_vars

\* a Link table of unlatched links, all in collection 1 of user 1
ownLinks ==
  [l \in LinkIds |-> [collectionId |-> 1, aiCollectionAssigned |-> FALSE]]

\* repeated batch runs: the requests run one after the other from a table of
\* unlatched links, under a configuration getAIModel resolves
InitRetry ==
  /\ links \in {startLinks, ownLinks}
  /\ env \in {e \in EnvSnapshots : getAIModel(e) # "throw"}
  /\ links0 = links
  /\ classified = {}
  /\ committed = {}
  /\ last = LastOff
  /\ resolved = NoModel /\ texts = NoTexts /\ prompt = NoPrompt
  /\ pc = [p \in Procs |-> "idle"]
  /\ frame = [p \in Procs |-> IdleFrame]
  /\ batch = [p \in Procs |-> IdleBatch]

\* a POST of user u, whose flag is on, that passes the handler's tests
BatchRun(p, u) ==
  /\ Handler(p)
  /\ pc'[p] = "findMany"
  /\ batch'[p].user.id = u

\* the classification call for link l resolves to an object
Classified(p, l) ==
  /\ Generate(p)
  /\ frame[p].linkId = l
  /\ pc'[p] = "update"

\* a request that has started runs to its end (the event loop resumes every
\* await); every user with the feature on posts batch runs again and again;
\* the classification of a link that is attempted again and again succeeds
\* at some attempt
FairRetry ==
  /\ \A p \in Sequential :
       /\ WF_vars(FindLink(p)) /\ WF_vars(FindCollections(p))
       /\ WF_vars(Generate(p)) /\ WF_vars(Update(p))
       /\ WF_vars(DirectDone(p)) /\ WF_vars(FindMany(p))
       /\ WF_vars(Loop(p)) /\ WF_vars(Processed(p))
       /\ WF_vars(Responded(p))
       /\ \A u \in Users : SF_vars(BatchRun(p, u))
       /\ \A l \in LinkIds : SF_vars(Classified(p, l))

SpecRetry == InitRetry /\ [][Next]_vars /\ FairRetry

TypeOK ==
  /\ links \in [LinkIds -> LinkRows]
  /\ env \in SUBSET EnvVars
  /\ classified \subseteq LinkIds \cup {MissingLinkId}
  /\ committed \subseteq LinkIds
  /\ \A p \in Procs :
       /\ pc[p] \in {"idle", "findLink", "findCollections", "generate",
                     "update", "returned", "findMany", "loop", "responded"}
       /\ frame[p].ret \in {Undefined} \cup Collections
       /\ batch[p].status \in {0, 200, 400, 401, 404, 405}

\* ------------------------------------------------------------- properties
\* the call of slot p has returned and its caller has not yet gone on
Returned(p) == pc[p] = "returned"

\* the row of the link the call of slot p was made for, if it has one
HasRow(p) == frame[p].linkId \in LinkIds

\* what findUnique gives now for the link of the call of slot p
Now(p) == findUnique(links, frame[p].linkId)

\* C1: when a decision cycle has returned, its link's collectionId is an id
\* of the candidate list loaded in that cycle or the collectionId the link had
\* when the cycle was called; the candidate list holds at most 25 collections,
\* all with ownerId = user.id
C1_CandidateOrPrevious ==
  \A p \in Procs :
    Returned(p) =>
      /\ Len(frame[p].collections) <= CandidateTake
      /\ \A c \in allowedIds(frame[p].collections) :
           c \in Collections /\ ownerId(c) = frame[p].user.id
      /\ \/ Now(p).collectionId \in allowedIds(frame[p].collections)
         \/ Now(p).collectionId = frame[p].before.collectionId

\* a cycle has moved its link into another collection
C1_Witness ==
  \E p \in Procs :
    /\ Returned(p) /\ frame[p].exit = 174 /\ HasRow(p)
    /\ Now(p).collectionId # frame[p].before.collectionId

\* C2: when a decision cycle has returned, the collection of its link has the
\* owner that the link's collection had when the cycle was called
C2_OwnerPreserved ==
  \A p \in Procs :
    Returned(p) /\ HasRow(p) =>
      ownerId(Now(p).collectionId) = ownerId(frame[p].before.collectionId)

\* C3: a link that is latched and was not latched initially has had a cycle
\* whose generateObject resolved to an object and whose update ran; a cycle
\* that returned as skipped (lines 118, 125, 134) or failed (line 148) has left
\* the latch of its link as it was
C3_LatchOnlyByCommit ==
  /\ \A l \in LinkIds :
       links[l].aiCollectionAssigned /\ ~links0[l].aiCollectionAssigned
         => l \in classified /\ l \in committed
  /\ \A p \in Procs :
       Returned(p) /\ frame[p].exit \in {118, 125, 134, 148} =>
         Now(p).aiCollectionAssigned = frame[p].before.aiCollectionAssigned

\* after latching cycles, a later cycle of an unlatched link has failed
C3_Witness ==
  \E p \in Procs :
    /\ Returned(p) /\ frame[p].exit = 148 /\ frame[p].modelCalled
    /\ \E l \in LinkIds :
         links[l].aiCollectionAssigned /\ ~links0[l].aiCollectionAssigned
    /\ ~Now(p).aiCollectionAssigned

\* C4: no step turns a link's aiCollectionAssigned from true to false, also
\* when the steps of two requests interleave
C4_LatchOneWay ==
  [][\A l \in LinkIds :
       links[l].aiCollectionAssigned => links'[l].aiCollectionAssigned]_vars

\* two cycles have both run their update on the same link
C4_Witness ==
  \E p, q \in Procs :
    /\ p # q
    /\ Returned(p) /\ Returned(q)
    /\ frame[p].exit \in {162, 174} /\ frame[q].exit \in {162, 174}
    /\ frame[p].linkId = frame[q].linkId
    /\ Now(p).aiCollectionAssigned

\* C5: a cycle that returned through the catch block (the request failed or
\* the reply did not match the schema) returned undefined and left its link
\* as it was at the call: unlatched, so that the batch query still selects it
C5_FailureLeavesLink ==
  \A p \in Procs :
    Returned(p) /\ frame[p].exit = 148 =>
      /\ frame[p].ret = Undefined
      /\ Now(p) = frame[p].before
      /\ ~Now(p).aiCollectionAssigned
      /\ frame[p].linkId \in eligibleLinks(links, ownerId(Now(p).collectionId))

\* a cycle whose model call was made has returned through the catch block
C5_Witness ==
  \E p \in Procs :
    Returned(p) /\ frame[p].exit = 148 /\ frame[p].modelCalled

\* C6: a cycle of an enabled user on an unlatched link with a non-empty
\* candidate list whose reply is an id of the list ends with the link in that
\* collection and latched, and returns that id
C6_CandidateAccepted ==
  \A p \in Procs :
    ( /\ Returned(p)
      /\ frame[p].user.aiCollectionsEnabled
      /\ HasRow(p) /\ ~frame[p].before.aiCollectionAssigned
      /\ frame[p].collections # <<>>
      /\ frame[p].object \in allowedIds(frame[p].collections) )
    => /\ Now(p).collectionId = frame[p].object
       /\ Now(p).aiCollectionAssigned
       /\ frame[p].ret = frame[p].object

\* the reply named a candidate other than the link's collection
C6_Witness ==
  \E p \in Procs :
    /\ Returned(p) /\ HasRow(p)
    /\ frame[p].object \in allowedIds(frame[p].collections)
    /\ frame[p].object # frame[p].before.collectionId
    /\ Now(p).collectionId = frame[p].object

\* C7: a cycle of an enabled user on an unlatched link with a non-empty
\* candidate list whose reply is an integer outside the list ends with the link
\* in the collection it was in, latched, and returns that collection's id
C7_OtherIdKeepsCollection ==
  \A p \in Procs :
    ( /\ Returned(p)
      /\ frame[p].user.aiCollectionsEnabled
      /\ HasRow(p) /\ ~frame[p].before.aiCollectionAssigned
      /\ frame[p].collections # <<>>
      /\ frame[p].object # Undefined
      /\ frame[p].object \notin allowedIds(frame[p].collections) )
    => /\ Now(p).collectionId = frame[p].before.collectionId
       /\ Now(p).aiCollectionAssigned
       /\ frame[p].ret = frame[p].before.collectionId

\* the reply named a collection of another user
C7_Witness ==
  \E p \in Procs :
    /\ Returned(p) /\ HasRow(p)
    /\ frame[p].object \in Collections
    /\ frame[p].object \notin allowedIds(frame[p].collections)
    /\ Now(p).aiCollectionAssigned
    /\ frame[p].ret = frame[p].before.collectionId

\* C8: the cycle of a user whose aiCollectionsEnabled is false is the one step
\* from the call to the return: it returns undefined, makes no model call and
\* leaves every row of the Link table as it is
C8_DisabledNoOp ==
  [][\A p \in Procs :
       pc[p] # "returned" /\ pc'[p] = "returned"
         /\ ~frame'[p].user.aiCollectionsEnabled
       => /\ pc[p] \in {"idle", "loop"}
          /\ frame'[p].exit = 118
          /\ frame'[p].ret = Undefined
          /\ ~frame'[p].modelCalled
          /\ links' = links]_vars

\* a disabled user's cycle on an unlatched link has returned
C8_Witness ==
  \E p \in Procs :
    /\ Returned(p) /\ ~frame[p].user.aiCollectionsEnabled /\ HasRow(p)
    /\ ~Now(p).aiCollectionAssigned

\* C9: a cycle that passed the preference test and whose link has no row or
\* was latched at the call returned undefined, made no model call and left
\* the link as it was
C9_MissingOrLatchedNoOp ==
  \A p \in Procs :
    ( /\ Returned(p)
      /\ frame[p].user.aiCollectionsEnabled
      /\ frame[p].before = NullLink \/ frame[p].before.aiCollectionAssigned )
    => /\ frame[p].exit = 125
       /\ frame[p].ret = Undefined
       /\ ~frame[p].modelCalled
       /\ Now(p) = frame[p].before

\* an enabled user's cycle on a link latched by an earlier cycle has returned
C9_Witness ==
  \E p \in Procs :
    /\ Returned(p) /\ frame[p].exit = 125 /\ HasRow(p)
    /\ frame[p].link.aiCollectionAssigned
    /\ ~links0[frame[p].linkId].aiCollectionAssigned

\* C10: a cycle called with a user who owns no collection returned undefined,
\* made no model call and left its link as it was: an unlatched link is still
\* unlatched
C10_NoCollectionsNoOp ==
  \A p \in Procs :
    Returned(p) /\ {c \in Collections : ownerId(c) = frame[p].user.id} = {} =>
      /\ frame[p].ret = Undefined
      /\ ~frame[p].modelCalled
      /\ Now(p) = frame[p].before

\* an enabled user without collections has had a cycle on an unlatched link
C10_Witness ==
  \E p \in Procs :
    /\ Returned(p) /\ frame[p].exit = 134
    /\ frame[p].collections = <<>>
    /\ ~Now(p).aiCollectionAssigned

\* C11 as claimed: a call that follows a call with the same user and link id
\* leaves the link as it found it, whatever the model replied in either call
C11_SecondRunNoOp ==
  \A p \in Procs :
    Returned(p) /\ last.user = frame[p].user /\ last.linkId = frame[p].linkId
      => Now(p) = frame[p].before

\* C11: a call that follows a call with the same user and link id which did
\* not return through the catch block (line 148) leaves the link as it found
\* it and returns undefined without a model call
C11_SecondRunNoOpUnlessFailed ==
  \A p \in Procs :
    ( /\ Returned(p)
      /\ last.user = frame[p].user /\ last.linkId = frame[p].linkId
      /\ last.exit # 148 )
    => /\ Now(p) = frame[p].before
       /\ frame[p].ret = Undefined
       /\ ~frame[p].modelCalled

\* the first call latched the link, the second one has returned
C11_Witness ==
  \E p \in Procs :
    /\ Returned(p)
    /\ last.user = frame[p].user /\ last.linkId = frame[p].linkId
    /\ last.exit \in {162, 174}
    /\ frame[p].exit = 125

\* the elements of the sequence s
Range(s) == {s[i] : i \in DOMAIN s}

\* C12: the handler selects at most 50 links, each once, all unlatched and in
\* a collection of the requesting user; while it loops, the calls made and the
\* rows left add up to the selection; a request that got past the early
\* responses ends with 200 and processed = the number of selected links, and
\* the selected links that are latched then are those whose call did not
\* return through the catch block
C12_ProcessedCountsAttempts ==
  \A p \in Procs :
    /\ pc[p] = "loop" /\ batch[p].processed = 0 /\ batch[p].links = batch[p].selected
         => /\ Len(batch[p].selected) <= BatchTake
            /\ Cardinality(Range(batch[p].selected)) = Len(batch[p].selected)
            /\ Range(batch[p].selected)
                 = eligibleLinks(links, batch[p].user.id)
    /\ pc[p] = "loop" =>
         batch[p].processed + Len(batch[p].links) = Len(batch[p].selected)
    /\ pc[p] = "responded" /\ batch[p].status \notin {400, 401, 404, 405}
         => /\ batch[p].status = 200
            /\ batch[p].processed = Len(batch[p].selected)
            /\ Cardinality({l \in Range(batch[p].selected) :
                              links[l].aiCollectionAssigned})
                 = batch[p].processed - batch[p].failed

\* a batch of several links has responded; the call for its first link
\* failed, and a link after it is latched
C12_Witness ==
  \E p \in Procs :
    /\ pc[p] = "responded" /\ batch[p].status = 200
    /\ batch[p].processed = NumLinks
    /\ batch[p].failed = 1
    /\ ~links[batch[p].selected[1]].aiCollectionAssigned
    /\ links[batch[p].selected[NumLinks]].aiCollectionAssigned

\* ---------------------------------------------------------------- C13
\* C13: whenever getAIModel would throw for the configuration snapshot, also
\* when a provider's key is set and its model name is not, the batch endpoint
\* responds 400 (or an earlier 401/404/405) before it selects any link and
\* runs no decision cycle; a 200 with a processed count is produced only when
\* a provider can be resolved
C13_NoProviderMeans400 ==
  \A p \in Procs :
    batch[p].active /\ getAIModel(env) = "throw"
      => /\ pc[p] = "responded"
         /\ batch[p].status \in {400, 401, 404, 405}
         /\ batch[p].selected = <<>>

\* ---------------------------------------------------------------- C14
\* C14: when no provider slot is eligible, a decision cycle that reaches the
\* classification step does not return to its caller: the configuration error
\* leaves autoAssignCollection as an exception, it is not turned into the
\* undefined of a per-link failure
C14_ConfigurationErrorSurfaced ==
  \A p \in Procs :
    Returned(p) /\ getAIModel(env) = "throw" => frame[p].exit \in {118, 125, 134}

\* ---------------------------------------------------------------- C15
\* the provider slots in the order getAIModel probes them
Slots == <<"openai-compatible", "azure", "anthropic", "ollama", "openrouter",
           "perplexity">>

\* the variable holding the API key or the endpoint of a slot
keyVar(slot) ==
  CASE slot = "openai-compatible" -> "OPENAI_API_KEY"
    [] slot = "azure" -> "AZURE_API_KEY"
    [] slot = "anthropic" -> "ANTHROPIC_API_KEY"
    [] slot = "ollama" -> "NEXT_PUBLIC_OLLAMA_ENDPOINT_URL"
    [] slot = "openrouter" -> "OPENROUTER_API_KEY"
    [] slot = "perplexity" -> "PERPLEXITY_API_KEY"

\* the variable holding the model name of a slot
modelVar(slot) ==
  CASE slot = "openai-compatible" -> "OPENAI_MODEL"
    [] slot = "azure" -> "AZURE_MODEL"
    [] slot = "anthropic" -> "ANTHROPIC_MODEL"
    [] slot = "ollama" -> "OLLAMA_MODEL"
    [] slot = "openrouter" -> "OPENROUTER_MODEL"
    [] slot = "perplexity" -> "PERPLEXITY_MODEL"

\* the variables the condition of a slot tests
requires(slot) ==
  CASE slot = "azure" -> {"AZURE_API_KEY", "AZURE_RESOURCE_NAME", "AZURE_MODEL"}
    [] slot = "perplexity" -> {"PERPLEXITY_API_KEY"}
    [] OTHER -> {keyVar(slot), modelVar(slot)}

\* a slot is eligible under snapshot e
eligible(slot, e) == requires(slot) \subseteq e

\* C15: for every configuration snapshot the resolver returns the first
\* eligible slot in the order OpenAI-compatible, Azure, Anthropic, Ollama,
\* OpenRouter, Perplexity (no slot before it is eligible), and it throws
\* exactly when no slot is eligible
C15_FirstEligibleSlot ==
  resolved # NoModel =>
    /\ resolved = "throw" <=> ~\E i \in DOMAIN Slots : eligible(Slots[i], env)
    /\ resolved # "throw" =>
         \E i \in DOMAIN Slots :
           /\ resolved = Slots[i]
           /\ eligible(Slots[i], env)
           /\ \A j \in 1..(i - 1) : ~eligible(Slots[j], env)

\* the resolver has passed over four ineligible slots, of which one has its
\* key set, and returned a slot that is not the last eligible one
C15_Witness ==
  /\ resolved = "openrouter"
  /\ "OPENAI_API_KEY" \in env
  /\ eligible("perplexity", env)

\* ---------------------------------------------------------------- C16
\* C16 as stated: the slot the resolver chooses has both its key (or endpoint)
\* and its model name configured
C16_KeyAndModel ==
  \A i \in DOMAIN Slots :
    resolved = Slots[i] => keyVar(Slots[i]) \in env /\ modelVar(Slots[i]) \in env

\* C16: the slot the resolver chooses has its key (or endpoint) configured,
\* and its model name too unless it is the Perplexity slot; a slot other
\* than Perplexity with a key and no model name is never chosen
C16_KeyAndModelButPerplexity ==
  \A i \in DOMAIN Slots :
    resolved = Slots[i] =>
      /\ keyVar(Slots[i]) \in env
      /\ Slots[i] # "perplexity" => modelVar(Slots[i]) \in env

\* the resolver has passed over a slot that has its key and no model name
\* and chosen Perplexity, whose model name is not configured
C16_Witness ==
  /\ resolved = "perplexity"
  /\ "PERPLEXITY_MODEL" \notin env
  /\ "OPENROUTER_API_KEY" \in env /\ "OPENROUTER_MODEL" \notin env

\* ---------------------------------------------------------------- C17
\* the text fields in the order of the summary
fields(t) == <<t.name, t.description, t.metaDescription, t.pageContent>>

\* the length of the non-empty fields of fs joined by one line break each
joinedLen(fs) ==
  LET nonEmpty == {k \in DOMAIN fs : Len(fs[k]) > 0}
      chars == Len(fs[1]) + Len(fs[2]) + Len(fs[3]) + Len(fs[4])
  IN IF nonEmpty = {} THEN 0 ELSE chars + Cardinality(nonEmpty) - 1

\* character i of the non-empty fields of fs from field k on, joined by one
\* line break each, for i within the joined length
RECURSIVE charAt(_, _, _)
charAt(fs, k, i) ==
  IF Len(fs[k]) = 0 THEN charAt(fs, k + 1, i)
  ELSE IF i <= Len(fs[k]) THEN fs[k][i]
  ELSE IF i = Len(fs[k]) + 1 THEN "\n"
  ELSE charAt(fs, k + 1, i - Len(fs[k]) - 1)

\* C17: the summary of the prompt is the first 2000 characters of the
\* non-empty fields among link name, link description, metaDescription and
\* pageContent, in that order, joined by line breaks; it is never longer than
\* 2000 characters
C17_ContentBlock ==
  prompt.built =>
    LET fs == fields(texts)
        n == joinedLen(fs)
    IN /\ Len(prompt.summary) = IF n < ContentCap THEN n ELSE ContentCap
       /\ Len(prompt.summary) <= ContentCap
       /\ \A i \in 1..Len(prompt.summary) : prompt.summary[i] = charAt(fs, 1, i)

\* a prompt built from a name, no description and two more fields that are
\* together longer than the cap: the summary is cut
C17_Witness ==
  /\ prompt.built
  /\ Len(texts.name) = 1 /\ Len(texts.description) = 0
  /\ Len(texts.metaDescription) = 1 /\ Len(texts.pageContent) = ContentCap
  /\ Len(prompt.summary) = ContentCap
  /\ prompt.summary[ContentCap] = "p"

\* ---------------------------------------------------------------- C18
\* C18: in every state, also between the steps of overlapping cycles, a link
\* whose collectionId differs from the one it started with has
\* aiCollectionAssigned = true, and a link that has been latched by a cycle
\* is one for which a classification call has returned an object
C18_LatchWithChange ==
  \A l \in LinkIds :
    /\ links[l].collectionId # links0[l].collectionId
         => links[l].aiCollectionAssigned
    /\ links[l].aiCollectionAssigned /\ ~links0[l].aiCollectionAssigned
         => l \in classified /\ l \in committed

\* a cycle has moved and latched a link while another cycle, which loaded the
\* same link before, is still waiting for its classification
C18_Witness ==
  \E p, q \in Procs :
    /\ p # q
    /\ Returned(p) /\ frame[p].exit = 174
    /\ pc[q] = "generate" /\ frame[q].linkId = frame[p].linkId
    /\ Now(p).aiCollectionAssigned
    /\ Now(p).collectionId # links0[frame[p].linkId].collectionId

\* ---------------------------------------------------------------- C19
\* C19: when the steps of two cycles on the same link interleave, the
\* collectionId of the link changes at most once: no step changes the
\* collectionId of a link that is already latched
C19_NoChangeOnceLatched ==
  [][\A l \in LinkIds :
       links[l].aiCollectionAssigned
         => links'[l].collectionId = links[l].collectionId]_vars

====
